---- MODULE Spec2Model ----
(***************************************************************************)
(* A model of am335x-updater.py: the MBR scan, the three firmware image    *)
(* detectors, the image locator, the update planner (compare_images), the  *)
(* raw copy (copy_raw) and the driver update_raw_beaglebone.               *)
(*                                                                         *)
(* Storage is modelled in chunks of ChunkSize bytes (half the distance     *)
(* between two probe offsets).  A chunk records what the detectors would   *)
(* read at its first bytes (hdr) and an identifier of the rest (body).     *)
(* Offsets, sizes and the partition boundary are byte counts.  Python's    *)
(* integers are unbounded; values that do not fit 31 bits (the MBR         *)
(* sentinel 0xffffffff, the boundary, the 32-bit magic numbers) are kept   *)
(* as pairs <<hi, lo>> standing for hi * 2^16 + lo.                        *)
(*                                                                         *)
(* SHA-256 is modelled as injective: a digest is the byte range itself.    *)
(***************************************************************************)
EXTENDS Integers, Sequences, FiniteSets, TLC

VARIABLES pc, files, devs, devices, action, new_images, outdated_images,
          idx, events, raised, result, arg, ret, response

vars == <<pc, files, devs, devices, action, new_images, outdated_images,
          idx, events, raised, result, arg, ret, response>>

(***************************************************************************)
(* Bounds of the model                                                     *)
(***************************************************************************)
MaxImageChunks == 3

MaxFound == 2

(***************************************************************************)
(* Wide non-negative integers: <<hi, lo>> = hi * 2^16 + lo, 0 <= lo < 2^16 *)
(***************************************************************************)
Limb == 256 * 256

W(n) == <<n \div Limb, n % Limb>>

WLt(a, b) == a[1] < b[1] \/ (a[1] = b[1] /\ a[2] < b[2])

WGe(a, b) == ~WLt(a, b)

WMul(k, a) == <<k * a[1] + (k * a[2]) \div Limb, (k * a[2]) % Limb>>

None == <<-1, -1>>

Min(a, b) == IF a < b THEN a ELSE b

(***************************************************************************)
(* get_block_size and find_mbr_first_partition                             *)
(***************************************************************************)
DEFAULT_SECTOR_SIZE == 512

NoSysfs == 0

\* dev.logical_block_size is the content of
\* /sys/class/block/<name>/queue/logical_block_size, NoSysfs when that path
\* does not exist.
get_block_size(dev) ==
    IF dev.logical_block_size = NoSysfs
    THEN DEFAULT_SECTOR_SIZE
    ELSE dev.logical_block_size

MBR_BOOT_SIG_OFFSET == \H1fe

MBR_FIRST_PART_ENTRY == \H1be

\* struct "<I" at byte offset off (0-based) of buf, as a wide integer
LE32(buf, off) ==
    <<buf[off + 4] * 256 + buf[off + 3], buf[off + 2] * 256 + buf[off + 1]>>

\* An entry counts only when its starting sector is not 0
AnyLbaByte(buf) == \E i \in 9..12 : buf[i] # 0

\* any(entry_buf)
AnyByte(buf) == \E i \in 1..Len(buf) : buf[i] # 0

\* partition_entry[4] of struct "<B3sB3s2I": the LBA start, bytes 8..11
EntryLbaStart(entry_buf) == LE32(entry_buf, 8)

LOWEST_SENTINEL == <<\Hffff, \Hffff>>

RECURSIVE LowestStartingSector(_, _, _)
\* The loop of lines 127-149 from entry i on, lowest being the value so far.
LowestStartingSector(entries, i, lowest) ==
    IF i > 4 THEN lowest
    ELSE IF ~AnyByte(entries[i])
         THEN LowestStartingSector(entries, i + 1, lowest)
         ELSE IF WLt(EntryLbaStart(entries[i]), lowest)
              THEN LowestStartingSector(entries, i + 1, EntryLbaStart(entries[i]))
              ELSE LowestStartingSector(entries, i + 1, lowest)

\* The scan without the check of the boot signature
find_mbr_unsigned(stream, sector_size) ==
    WMul(sector_size, LowestStartingSector(stream.entries, 1, LOWEST_SENTINEL))

\* stream: the first sector, [boot_sig: the 2 bytes at 0x1fe, entries: the
\* four 16-byte partition entries at 0x1be].  Returns a wide integer or None.
find_mbr_first_partition(stream, sector_size) ==
    IF stream.boot_sig # <<\H55, \Haa>>
    THEN None
    ELSE WMul(sector_size, LowestStartingSector(stream.entries, 1, LOWEST_SENTINEL))

(***************************************************************************)
(* The image detectors.  A header h describes the leading bytes of a chunk *)
(* as each detector parses them:                                           *)
(*   toc_hex   sha256 of the first 512 bytes                               *)
(*   image_len "<I" at byte 512                                            *)
(*   magic     ">I" at byte 0, as <<high 16 bits, low 16 bits>>            *)
(*   fdt_len   ">I" at byte 4 (the FDT's totalsize)                        *)
(*   size, os, type   fields 3, 7 and 9 of ">7I4B32s"                      *)
(*   tree      what the dtc pipeline and yaml.safe_load_all yield          *)
(* A detector returns [exc, size]: exc = "none" and the size, or the name  *)
(* of the exception it raises.                                             *)
(***************************************************************************)
Returns(n) == [exc |-> "none", size |-> n]

Raises(e) == [exc |-> e, size |-> 0]

TOC_LEN == 512

expected_hash == "21a542439d495f829f448325a75a2a377bf84c107751fe77a0aeb321d1e23868"

get_mlo_toc_size(h) ==
    IF h.toc_hex # expected_hash
    THEN Raises("InvalidFirmwareImage")
    ELSE Returns(h.image_len + TOC_LEN)

U_BOOT_HEADER_LEN == 64

UBOOT_LEGACY_MAGIC == <<\H2705, \H1956>>

UBOOT_OS == 17

FIRMWARE_TYPE == 5

\* The OS and type fields checked before the magic number
get_u_boot_legacy_size_os_first(h) ==
    IF h.os # UBOOT_OS THEN Raises("InvalidUBootImage")
    ELSE IF h.type # FIRMWARE_TYPE THEN Raises("InvalidUBootImage")
    ELSE IF h.magic # UBOOT_LEGACY_MAGIC THEN Raises("InvalidFirmwareImage")
    ELSE Returns(h.size + U_BOOT_HEADER_LEN)

get_u_boot_legacy_size(h) ==
    IF h.magic # UBOOT_LEGACY_MAGIC THEN Raises("InvalidFirmwareImage")
    ELSE IF h.os # UBOOT_OS THEN Raises("InvalidUBootImage")
    ELSE IF h.type # FIRMWARE_TYPE THEN Raises("InvalidUBootImage")
    ELSE Returns(h.size + U_BOOT_HEADER_LEN)

\* align_to * math.ceil(n / align_to)
align_up(n, align_to) == align_to * ((n + align_to - 1) \div align_to)

FDT_MAGIC == <<\Hd00d, \Hfeed>>

Absent == -1

NoneStr == "None"

RECURSIVE FitScan(_, _, _)
\* The loop of lines 300-321 from entry i on; st = [largest_offset,
\* offset_size, uboot_image_found, exc].
FitScan(images, i, st) ==
    IF i > Len(images) THEN st
    ELSE IF images[i].data_offset = Absent \/ images[i].data_size = Absent
         THEN [st EXCEPT !.exc = "KeyError"]
         ELSE LET image_offset == images[i].data_offset
                  image_size == images[i].data_size
                  larger == image_offset > st.largest_offset
                  isuboot == images[i].type = "firmware" /\ images[i].os = "u-boot"
              IN FitScan(images, i + 1,
                   [largest_offset |-> IF larger THEN image_offset ELSE st.largest_offset,
                    offset_size |-> IF larger THEN image_size ELSE st.offset_size,
                    uboot_image_found |-> st.uboot_image_found \/ isuboot,
                    exc |-> st.exc])

get_u_boot_fit_size(h) ==
    IF h.magic # FDT_MAGIC THEN Raises("InvalidFirmwareImage")
    ELSE IF ~h.tree.has_images THEN Raises("InvalidFirmwareImage")
    ELSE LET st == FitScan(h.tree.images, 1,
                     [largest_offset |-> 0, offset_size |-> 0,
                      uboot_image_found |-> FALSE, exc |-> "none"])
         IN IF st.exc # "none" THEN Raises("InvalidFirmwareImage")
            ELSE IF ~st.uboot_image_found THEN Raises("InvalidUBootImage")
            ELSE Returns(align_up(h.fdt_len, 4)
                         + align_up(st.largest_offset + st.offset_size, 4))

(***************************************************************************)
(* Storage and FirmwareImage                                               *)
(***************************************************************************)
PROBE_OFFSETS == <<0, \H20000, \H40000, \H60000>>

ChunkSize == PROBE_OFFSETS[2] \div 2

MLO == "MLO image"

UBOOT == "U-Boot image"

\* fs = [files, devs]: the data behind a path, a sequence of chunks
DataOf(fs, path) ==
    IF path \in DOMAIN fs.devs THEN fs.devs[path].data ELSE fs.files[path].data

\* os.stat(path).st_size
StatSize(fs, path) == Len(DataOf(fs, path)) * ChunkSize

\* f.seek(offset); f.read(size): short at the end of the data
ReadBytes(data, offset, size) ==
    SubSeq(data, offset \div ChunkSize + 1,
           Min(Len(data), (offset + size + ChunkSize - 1) \div ChunkSize))

\* The four-argument constructor
FirmwareImage(device, offset, kind, size) ==
    [device |-> device, offset |-> offset, kind |-> kind, size |-> size]

\* The two-argument constructor: a whole file
FirmwareImageOfFile(fs, path, kind) ==
    FirmwareImage(path, 0, kind, StatSize(fs, path))

hexdigest(fs, image) == ReadBytes(DataOf(fs, image.device), image.offset, image.size)

FirmwareImage_eq(fs, a, b) == hexdigest(fs, a) = hexdigest(fs, b)

\* __ge__ with an int: other is a wide integer
FirmwareImage_ge(image, other) == WGe(W(image.offset + image.size), other)

\* A rebase that takes the size of the image it is moved onto
FirmwareImage_matmul_resized(image, new_offset) ==
    FirmwareImage(image.device, new_offset.offset, image.kind, new_offset.size)

\* __matmul__ with a FirmwareImage
FirmwareImage_matmul(image, new_offset) ==
    FirmwareImage(image.device, new_offset.offset, image.kind, image.size)

\* A copy that keeps the offset of the operand
FirmwareImage_matmul_int_kept(image, new_offset) ==
    IF new_offset < 0
    THEN [exc |-> "ValueError", image |-> image]
    ELSE [exc |-> "none",
          image |-> FirmwareImage(image.device, image.offset, image.kind, image.size)]

\* __matmul__ with an int: [exc, image], image being the new instance when
\* exc = "none"
FirmwareImage_matmul_int(image, new_offset) ==
    IF new_offset < 0
    THEN [exc |-> "ValueError", image |-> image]
    ELSE [exc |-> "none",
          image |-> FirmwareImage(image.device, new_offset, image.kind, image.size)]

\* MLO before U-Boot
ImageKind_lt(a, b) == a = MLO /\ b = UBOOT

(***************************************************************************)
(* find_images                                                             *)
(***************************************************************************)
HeaderAt(data, offset) == data[offset \div ChunkSize + 1].hdr

\* The inner loop of find_images at one offset: the images the three finders
\* yield there, in the order (get_mlo_toc_size, get_u_boot_legacy_size,
\* get_u_boot_fit_size).
FoundAt(fs, device_path, offset) ==
    LET h == HeaderAt(DataOf(fs, device_path), offset)
        mlo == get_mlo_toc_size(h)
        legacy == get_u_boot_legacy_size(h)
        fit == get_u_boot_fit_size(h)
    IN (IF mlo.exc = "none"
        THEN <<FirmwareImage(device_path, offset, MLO, mlo.size)>> ELSE <<>>)
       \o (IF legacy.exc = "none"
           THEN <<FirmwareImage(device_path, offset, UBOOT, legacy.size)>> ELSE <<>>)
       \o (IF fit.exc = "none"
           THEN <<FirmwareImage(device_path, offset, UBOOT, fit.size)>> ELSE <<>>)

RECURSIVE FindImagesFrom(_, _, _)
FindImagesFrom(fs, device_path, i) ==
    IF i > Len(PROBE_OFFSETS) THEN <<>>
    ELSE FoundAt(fs, device_path, PROBE_OFFSETS[i])
         \o FindImagesFrom(fs, device_path, i + 1)

find_images(fs, device_path) == FindImagesFrom(fs, device_path, 1)

(***************************************************************************)
(* compare_images.  The result is [images_to_update, io]: io lists the     *)
(* reads of devices the planner made, in order.                            *)
(***************************************************************************)
Event(op, path, off, n) == [op |-> op, path |-> path, off |-> off, n |-> n]

\* No image overlaps the MBR
OverlapsMbrNever(image) == FALSE

\* Line 595: an image at offset 0 is skipped
OverlapsMbr(image) == image.offset = 0

\* The comparison of line 606 with > for >=
OverlapsPartitionStrict(new_image, image, lowest_partition_start) ==
    WLt(lowest_partition_start, W(image.offset + new_image.size))

\* Line 606: new_image @ image >= lowest_partition_start
OverlapsPartition(new_image, image, lowest_partition_start) ==
    FirmwareImage_ge(FirmwareImage_matmul(new_image, image), lowest_partition_start)

\* The comparison of line 613 with == for !=
OutdatedInverted(fs, new_image, image) == FirmwareImage_eq(fs, new_image, image)

\* Line 613: new_image != image
Outdated(fs, new_image, image) == ~FirmwareImage_eq(fs, new_image, image)

RECURSIVE CompareFoundBreak(_, _, _, _, _, _)
\* The loop with break for continue: a rejected image ends the device
CompareFoundBreak(fs, new_mlo, new_u_boot, lowest_partition_start, images, i) ==
    IF i > Len(images) THEN [images_to_update |-> <<>>, io |-> <<>>]
    ELSE LET image == images[i]
             new_image == IF image.kind = MLO THEN new_mlo ELSE new_u_boot
             rest == CompareFoundBreak(fs, new_mlo, new_u_boot,
                                       lowest_partition_start, images, i + 1)
         IN IF OverlapsMbr(image)
               \/ OverlapsPartition(new_image, image, lowest_partition_start)
            THEN [images_to_update |-> <<>>, io |-> <<>>]
            ELSE [images_to_update |->
                      (IF Outdated(fs, new_image, image) THEN <<image>> ELSE <<>>)
                      \o rest.images_to_update,
                  io |-> <<Event("hexdigest", image.device, image.offset, image.size)>>
                         \o rest.io]

RECURSIVE CompareFound(_, _, _, _, _, _)
\* The loop of lines 594-636 over images from index i on
CompareFound(fs, new_mlo, new_u_boot, lowest_partition_start, images, i) ==
    IF i > Len(images) THEN [images_to_update |-> <<>>, io |-> <<>>]
    ELSE LET image == images[i]
             new_image == IF image.kind = MLO THEN new_mlo ELSE new_u_boot
             rest == CompareFound(fs, new_mlo, new_u_boot,
                                  lowest_partition_start, images, i + 1)
         IN IF OverlapsMbr(image) THEN rest
            ELSE IF OverlapsPartition(new_image, image, lowest_partition_start)
            THEN rest
            ELSE [images_to_update |->
                      (IF Outdated(fs, new_image, image) THEN <<image>> ELSE <<>>)
                      \o rest.images_to_update,
                  io |-> <<Event("hexdigest", image.device, image.offset, image.size)>>
                         \o rest.io]

RECURSIVE compare_images(_, _, _, _)
compare_images(fs, new_mlo, new_u_boot, device_paths) ==
    IF device_paths = <<>> THEN [images_to_update |-> <<>>, io |-> <<>>]
    ELSE LET device_path == Head(device_paths)
             sector_size == get_block_size(fs.devs[device_path])
             lowest_partition_start ==
                 find_mbr_first_partition(fs.devs[device_path].mbr, sector_size)
             rest == compare_images(fs, new_mlo, new_u_boot, Tail(device_paths))
             scan == <<Event("find_mbr_first_partition", device_path, 0, 0)>>
         IN IF lowest_partition_start = None
            THEN [images_to_update |-> rest.images_to_update,
                  io |-> scan \o rest.io]
            ELSE LET images == find_images(fs, device_path)
                     this == CompareFound(fs, new_mlo, new_u_boot,
                                          lowest_partition_start, images, 1)
                 IN [images_to_update |->
                         this.images_to_update \o rest.images_to_update,
                     io |-> scan
                            \o <<Event("find_images", device_path, 0, 0)>>
                            \o this.io \o rest.io]

(***************************************************************************)
(* The sort of line 745: key (kind, device, offset), stable                *)
(***************************************************************************)
DEFAULT_DEVICES == <<"/dev/mmcblk0", "/dev/mmcblk1">>

\* str.__lt__ on the device paths of the model
PathRank(path) == CHOOSE i \in 1..Len(DEFAULT_DEVICES) : DEFAULT_DEVICES[i] = path

PathLt(a, b) == PathRank(a) < PathRank(b)

\* Tuple comparison of (i.device, i.kind, i.offset)
KeyLtDeviceFirst(a, b) ==
    IF a.device # b.device THEN PathLt(a.device, b.device)
    ELSE IF a.kind # b.kind THEN ImageKind_lt(a.kind, b.kind)
    ELSE a.offset < b.offset

\* Tuple comparison of (i.kind, i.device, i.offset)
KeyLt(a, b) ==
    IF a.kind # b.kind THEN ImageKind_lt(a.kind, b.kind)
    ELSE IF a.device # b.device THEN PathLt(a.device, b.device)
    ELSE a.offset < b.offset

RECURSIVE InsertSorted(_, _)
\* x goes after every element that is not greater than it (stability)
InsertSorted(sorted, x) ==
    IF sorted = <<>> THEN <<x>>
    ELSE IF KeyLt(x, Head(sorted)) THEN <<x>> \o sorted
    ELSE <<Head(sorted)>> \o InsertSorted(Tail(sorted), x)

RECURSIVE SortImages(_, _)
SortImages(images, acc) ==
    IF images = <<>> THEN acc
    ELSE SortImages(Tail(images), InsertSorted(acc, Head(images)))

(***************************************************************************)
(* copy_raw.  io is what the system calls do: io.open and io.fsync are     *)
(* "ok" or "OSError"; io.sendfile is the number of chunks os.sendfile      *)
(* reports, or Absent when it raises OSError.                              *)
(***************************************************************************)
\* The chunks sendfile can move: up to the count asked for, the end of the
\* source and the end of the target.
Transferable(fs, source_image, target_image) ==
    Min(Len(ReadBytes(DataOf(fs, source_image.device),
                      source_image.offset, source_image.size)),
        Len(DataOf(fs, target_image.device)) - target_image.offset \div ChunkSize)

\* data with src written at byte offset
WriteBytes(data, offset, src) ==
    [i \in 1..Len(data) |->
        IF i > offset \div ChunkSize /\ i <= offset \div ChunkSize + Len(src)
        THEN src[i - offset \div ChunkSize]
        ELSE data[i]]

\* No check of the count sendfile returned
TransferUnchecked(write_size, source_image) == TRUE

\* Line 658: assert write_size == source_image.size
TransferComplete(write_size, source_image) == write_size = source_image.size

\* The handle closed without a flush
CloseOnly(dev) == <<Event("os.close", dev, 0, 0)>>

\* Lines 663-666 after a complete transfer: os.fsync, then os.close
SyncAndClose(dev) == <<Event("os.fsync", dev, 0, 0), Event("os.close", dev, 0, 0)>>

\* The result: [data: the target's data afterwards, io: the calls made on
\* the target and what they gave, exc: "none" or the exception that leaves
\* copy_raw].  "written" records the count os.sendfile returned, "OSError"
\* that a call of lines 649-657 raised, "return" that copy_raw returned.
copy_raw(fs, source_image, target_image, io) ==
    LET dev == target_image.device
        old == DataOf(fs, dev)
        src == ReadBytes(DataOf(fs, source_image.device),
                         source_image.offset, source_image.size)
        write_size == io.sendfile * ChunkSize
        written == WriteBytes(old, target_image.offset, SubSeq(src, 1, io.sendfile))
        called == <<Event("os.open", dev, 0, 0),
                    Event("os.lseek", dev, target_image.offset, 0),
                    Event("os.sendfile", dev, target_image.offset, source_image.size)>>
        sent == called \o <<Event("written", dev, target_image.offset, write_size)>>
        closed == <<Event("os.close", dev, 0, 0)>>
    IN IF io.open # "ok"
       THEN [data |-> old, io |-> <<>>, exc |-> "OSError"]
       ELSE IF io.sendfile = Absent
       THEN [data |-> old,
             io |-> called \o <<Event("OSError", dev, target_image.offset, 0)>> \o closed,
             exc |-> "OSError"]
       ELSE IF ~TransferComplete(write_size, source_image)
       THEN [data |-> written, io |-> sent \o closed, exc |-> "AssertionError"]
       ELSE IF io.fsync # "ok"
       THEN [data |-> written, io |-> sent \o SyncAndClose(dev), exc |-> "OSError"]
       ELSE [data |-> written,
             io |-> sent \o SyncAndClose(dev)
                    \o <<Event("return", dev, target_image.offset, write_size)>>,
             exc |-> "none"]

\* What the system calls of one copy_raw call can do; of the short counts
\* sendfile can return the model takes 0 and one chunk less than all
CopyOutcomes(fs, source_image, target_image) ==
    {[open |-> "OSError", sendfile |-> 0, fsync |-> "ok"]}
    \cup [open : {"ok"},
          sendfile : {Absent, 0, Transferable(fs, source_image, target_image) - 1,
                      Transferable(fs, source_image, target_image)},
          fsync : {"ok"}]
    \cup {[open |-> "ok",
           sendfile |-> Transferable(fs, source_image, target_image),
           fsync |-> "OSError"]}

(***************************************************************************)
(* update_raw_beaglebone                                                   *)
(***************************************************************************)
DEFAULT_MLO_PATH == "/usr/lib/u-boot/am335x_evm/MLO"

DEFAULT_UBOOT_PATH == "/usr/lib/u-boot/am335x_evm/u-boot.img"

FS == [files |-> files, devs |-> devs]

\* Lines 711-718: "none" or the exception raised
CheckMlo(file) ==
    IF get_mlo_toc_size(file.data[1].hdr).exc # "none" THEN "ValueError" ELSE "none"

\* The loop of lines 720-734 without the else clause of line 735
CheckUBootNoElse(file) ==
    LET fit == get_u_boot_fit_size(file.data[1].hdr)
        legacy == get_u_boot_legacy_size(file.data[1].hdr)
    IN IF fit.exc = "InvalidUBootImage" THEN "ValueError"
       ELSE IF fit.exc = "none" THEN "none"
       ELSE IF legacy.exc = "InvalidUBootImage" THEN "ValueError"
       ELSE "none"

\* Lines 719-736: the finders in the order (fit, legacy)
CheckUBoot(file) ==
    LET fit == get_u_boot_fit_size(file.data[1].hdr)
        legacy == get_u_boot_legacy_size(file.data[1].hdr)
    IN IF fit.exc = "InvalidUBootImage" THEN "ValueError"
       ELSE IF fit.exc = "none" THEN "none"
       ELSE IF legacy.exc = "InvalidUBootImage" THEN "ValueError"
       ELSE IF legacy.exc = "none" THEN "none"
       ELSE "ValueError"

\* Lines 702-736
CheckFiles(new_mlo_path, new_u_boot_path) ==
    IF ~files[new_mlo_path].exists THEN "FileNotFoundError"
    ELSE IF ~files[new_u_boot_path].exists THEN "FileNotFoundError"
    ELSE IF CheckMlo(files[new_mlo_path]) # "none" THEN CheckMlo(files[new_mlo_path])
    ELSE CheckUBoot(files[new_u_boot_path])

NoImages == [k \in {MLO, UBOOT} |-> FirmwareImage("", 0, k, 0)]

\* Lines 702-742: the replacement files are checked and become new_images
Validate ==
    /\ pc = "validate"
    /\ LET exc == CheckFiles(DEFAULT_MLO_PATH, DEFAULT_UBOOT_PATH)
       IN IF exc # "none"
          THEN /\ raised' = exc
               /\ pc' = "raised"
               /\ UNCHANGED new_images
          ELSE /\ new_images' =
                      [k \in {MLO, UBOOT} |->
                          FirmwareImageOfFile(FS,
                              IF k = MLO THEN DEFAULT_MLO_PATH ELSE DEFAULT_UBOOT_PATH, k)]
               /\ pc' = "compare"
               /\ UNCHANGED raised
    /\ UNCHANGED <<files, devs, devices, action, outdated_images, idx, events,
                   result, arg, ret, response>>

\* Lines 743-745: the plan, sorted
Plan ==
    /\ pc = "compare"
    /\ LET r == compare_images(FS, new_images[MLO], new_images[UBOOT], devices)
       IN /\ outdated_images' = SortImages(r.images_to_update, <<>>)
          /\ events' = events \o r.io
    /\ idx' = 1
    /\ pc' = "apply"
    /\ UNCHANGED <<files, devs, devices, action, new_images, raised, result, arg, ret, response>>

DRY_RUN == "DRY_RUN"

INTERACTIVE == "INTERACTIVE"

FORCE == "FORCE"

\* Line 765 or 775 for the entry at idx, the system calls behaving as io
DoCopy(io) ==
    LET image == outdated_images[idx]
        r == copy_raw(FS, new_images[image.kind], image, io)
    IN /\ devs' = [devs EXCEPT ![image.device].data = r.data]
       /\ events' = events \o r.io
       /\ IF r.exc = "none"
          THEN /\ idx' = idx + 1
               /\ UNCHANGED <<pc, raised>>
          ELSE /\ raised' = r.exc
               /\ pc' = "raised"
               /\ UNCHANGED idx

\* Lines 755-759
ApplyDryRun ==
    /\ pc = "apply" /\ idx <= Len(outdated_images)
    /\ action = DRY_RUN
    /\ idx' = idx + 1
    /\ UNCHANGED <<pc, files, devs, devices, action, new_images, outdated_images,
                   events, raised, result, arg, ret, response>>

\* Lines 760-765
ApplyForce ==
    /\ pc = "apply" /\ idx <= Len(outdated_images)
    /\ action = FORCE
    /\ \E io \in CopyOutcomes(FS, new_images[outdated_images[idx].kind],
                              outdated_images[idx]) : DoCopy(io)
    /\ UNCHANGED <<files, devices, action, new_images, outdated_images,
                   result, arg, ret, response>>

\* The value of response (line 767) before any prompt
Unprompted == "unprompted"

Responses == {"y", " Yes", "n", "yes please"}

\* The first word of the response, lowercased
CleanedFirstWord(text) ==
    CASE text = "y" -> "y"
      [] text = " Yes" -> "yes"
      [] text = "n" -> "n"
      [] text = "yes please" -> "yes"

\* response.lower().strip() on the responses of the model
Cleaned(text) ==
    CASE text = "y" -> "y"
      [] text = " Yes" -> "yes"
      [] text = "n" -> "n"
      [] text = "yes please" -> "yes please"

\* Lines 766-775
ApplyInteractive ==
    /\ pc = "apply" /\ idx <= Len(outdated_images)
    /\ action = INTERACTIVE
    /\ \E r \in Responses :
          /\ response' = r
          /\ IF Cleaned(r) \notin {"y", "yes"}
             THEN /\ idx' = idx + 1
                  /\ UNCHANGED <<pc, devs, events, raised>>
             ELSE \E io \in CopyOutcomes(FS, new_images[outdated_images[idx].kind],
                                         outdated_images[idx]) : DoCopy(io)
    /\ UNCHANGED <<files, devices, action, new_images, outdated_images,
                   result, arg, ret>>

\* Line 776
Return ==
    /\ pc = "apply" /\ idx > Len(outdated_images)
    /\ result' = IF outdated_images # <<>> THEN "True" ELSE "False"
    /\ pc' = "returned"
    /\ UNCHANGED <<files, devs, devices, action, new_images, outdated_images,
                   idx, events, raised, arg, ret, response>>

Next == Validate \/ Plan \/ ApplyDryRun \/ ApplyForce \/ ApplyInteractive \/ Return

(***************************************************************************)
(* The inputs of the model: replacement files and device contents          *)
(***************************************************************************)
NoTree == [has_images |-> FALSE, images |-> <<>>]

\* Leading bytes no detector recognises
NoHdr ==
    [toc_hex |-> "other", image_len |-> 0, magic |-> <<0, 0>>, fdt_len |-> 0,
     size |-> 0, os |-> 0, type |-> 0, tree |-> NoTree]

\* A TOC followed by the length of an image of n chunks in all
TocHdr(n) ==
    [NoHdr EXCEPT !.toc_hex = expected_hash, !.image_len = n * ChunkSize - TOC_LEN]

\* A legacy header of an image of n chunks in all
LegacyHdr(n, os, type) ==
    [NoHdr EXCEPT !.magic = UBOOT_LEGACY_MAGIC, !.size = n * ChunkSize - U_BOOT_HEADER_LEN,
                  !.os = os, !.type = type]

FitEntry(off, size, type, os) ==
    [data_offset |-> off, data_size |-> size, type |-> type, os |-> os]

\* A FIT of n chunks in all: an FDT of 4093 bytes, then the u-boot
\* sub-image and, placed last, a device tree
FitTree(n) ==
    [has_images |-> TRUE,
     images |-> <<FitEntry(0, 1000, "firmware", "u-boot"),
                  FitEntry(1000, n * ChunkSize - 4096 - 1000 - 2, "flat_dt", NoneStr)>>]

FitHdr(n, tree) ==
    [NoHdr EXCEPT !.magic = FDT_MAGIC, !.fdt_len = 4093, !.tree = tree]

\* n chunks: the header, then the body
ImageData(hdr, n, body) ==
    [i \in 1..n |-> [hdr |-> IF i = 1 THEN hdr ELSE NoHdr, body |-> body]]

File(data) == [exists |-> TRUE, data |-> data]

Missing == [exists |-> FALSE, data |-> <<>>]

ValidMloFiles == {File(ImageData(TocHdr(n), n, 1)) : n \in {1, 2}}

ValidUBootFiles ==
    {File(ImageData(LegacyHdr(1, UBOOT_OS, FIRMWARE_TYPE), 1, 1)),
     File(ImageData(FitHdr(MaxImageChunks, FitTree(MaxImageChunks)), MaxImageChunks, 1))}

InvalidMloFiles ==
    {Missing,
     File(ImageData(NoHdr, 1, 1)),
     File(ImageData(LegacyHdr(1, UBOOT_OS, FIRMWARE_TYPE), 1, 1))}

InvalidUBootFiles ==
    {Missing,
     File(ImageData(NoHdr, 1, 1)),
     File(ImageData(TocHdr(1), 1, 1)),
     File(ImageData(LegacyHdr(1, UBOOT_OS + 1, FIRMWARE_TYPE), 1, 1)),
     File(ImageData(LegacyHdr(1, UBOOT_OS, FIRMWARE_TYPE - 1), 1, 1)),
     File(ImageData(FitHdr(2, NoTree), 2, 1)),
     File(ImageData(FitHdr(2, [has_images |-> TRUE,
                               images |-> <<FitEntry(0, Absent, "firmware", "u-boot")>>]),
                    2, 1)),
     File(ImageData(FitHdr(2, [has_images |-> TRUE,
                               images |-> <<FitEntry(0, 1000, "kernel", "linux")>>]),
                    2, 1))}

\* Partition entries: 16 bytes
ZeroEntry == [i \in 1..16 |-> 0]

\* flags, CHS start, type, CHS end, LBA start b0..b3 (little-endian), count
PartEntry(b0, b1, b2, b3) ==
    <<\H80, 1, 1, 0, \H0c, 254, 255, 255, b0, b1, b2, b3, 0, 0, 16, 0>>

\* An entry whose only non-zero byte is its type
TypeOnlyEntry == [i \in 1..16 |-> IF i = 5 THEN \H83 ELSE 0]

Mbr(sig, e1, e2, e3, e4) == [boot_sig |-> sig, entries |-> <<e1, e2, e3, e4>>]

GoodSig == <<\H55, \Haa>>

\* First sectors with their sector size: a first partition at LBA 2048
\* (boundary 0x100000); 4096-byte sectors and partitions at LBA 128 and 64
\* (boundary 0x40000); no boot signature; a signature and no partition.
Geometries ==
    {[logical_block_size |-> NoSysfs,
      mbr |-> Mbr(GoodSig, PartEntry(0, 8, 0, 0), ZeroEntry, ZeroEntry, ZeroEntry)],
     [logical_block_size |-> 4096,
      mbr |-> Mbr(GoodSig, ZeroEntry, PartEntry(128, 0, 0, 0), PartEntry(64, 0, 0, 0),
                  ZeroEntry)],
     [logical_block_size |-> NoSysfs,
      mbr |-> Mbr(<<\H55, 0>>, PartEntry(0, 8, 0, 0), ZeroEntry, ZeroEntry, ZeroEntry)],
     [logical_block_size |-> NoSysfs,
      mbr |-> Mbr(GoodSig, ZeroEntry, ZeroEntry, ZeroEntry, ZeroEntry)]}

\* The chunks of a device the model follows: every probe offset and the
\* longest image after the last one
DevChunks == PROBE_OFFSETS[4] \div ChunkSize + MaxImageChunks + 1

BlankData == [i \in 1..DevChunks |-> [hdr |-> NoHdr, body |-> 0]]

\* An image on a device that differs from every replacement file
OldMlo == ImageData(TocHdr(1), 1, 0)

OldUBoot == ImageData(LegacyHdr(2, UBOOT_OS, FIRMWARE_TYPE), 2, 0)

\* What a probe offset can hold: nothing, an old image of either kind, or a
\* copy of a replacement file; offset 0, where the first sector lies, nothing
\* or an old first-stage image
SlotChoices(mlo, uboot, k) ==
    IF k = 1 THEN {<<>>, OldMlo}
    ELSE {<<>>, OldMlo, OldUBoot, mlo.data, uboot.data}

RECURSIVE LayOut(_, _, _)
\* data with layout[k], layout[k+1], ... written at their probe offsets
LayOut(data, layout, k) ==
    IF k > Len(PROBE_OFFSETS) THEN data
    ELSE LayOut(WriteBytes(data, PROBE_OFFSETS[k], layout[k]), layout, k + 1)

Layouts(mlo, uboot) ==
    {l \in [1..Len(PROBE_OFFSETS) -> SlotChoices(mlo, uboot, 2)] :
        /\ \A k \in 1..Len(PROBE_OFFSETS) : l[k] \in SlotChoices(mlo, uboot, k)
        /\ Cardinality({k \in 1..Len(PROBE_OFFSETS) : l[k] # <<>>}) <= MaxFound}

Device(geometry, data) ==
    [logical_block_size |-> geometry.logical_block_size, mbr |-> geometry.mbr,
     data |-> data]

\* The contents of the second device: an old image behind a partition at
\* LBA 2048
OtherDevice ==
    Device([logical_block_size |-> NoSysfs,
            mbr |-> Mbr(GoodSig, PartEntry(0, 8, 0, 0), ZeroEntry, ZeroEntry, ZeroEntry)],
           LayOut(BlankData, <<<<>>, OldMlo, <<>>, <<>>>>, 1))

DeviceLists == {DEFAULT_DEVICES, <<DEFAULT_DEVICES[2], DEFAULT_DEVICES[1]>>}

Actions == {DRY_RUN, INTERACTIVE, FORCE}

InitRun ==
    /\ pc = "validate"
    /\ new_images = NoImages
    /\ outdated_images = <<>>
    /\ idx = 1
    /\ events = <<>>
    /\ raised = "none"
    /\ result = "none"
    /\ arg = <<>>
    /\ ret = <<>>
    /\ response = Unprompted

\* Valid replacement files, every layout of the first device.  The update
\* list does not depend on the action, so the devices are given in the other
\* order in DRY_RUN runs only.
InitValid ==
    /\ \E mlo \in ValidMloFiles, uboot \in ValidUBootFiles :
          /\ files = [p \in {DEFAULT_MLO_PATH, DEFAULT_UBOOT_PATH} |->
                         IF p = DEFAULT_MLO_PATH THEN mlo ELSE uboot]
          /\ \E g \in Geometries, l \in Layouts(mlo, uboot) :
                devs = [p \in {DEFAULT_DEVICES[1], DEFAULT_DEVICES[2]} |->
                           IF p = DEFAULT_DEVICES[1]
                           THEN Device(g, LayOut(BlankData, l, 1))
                           ELSE OtherDevice]
    /\ devices \in DeviceLists
    /\ action \in Actions
    /\ devices # DEFAULT_DEVICES => action = DRY_RUN
    /\ InitRun

\* A replacement file that is missing or not a valid image
InitInvalid ==
    /\ \E mlo \in ValidMloFiles \cup InvalidMloFiles,
          uboot \in ValidUBootFiles \cup InvalidUBootFiles :
          /\ mlo \in InvalidMloFiles \/ uboot \in InvalidUBootFiles
          /\ files = [p \in {DEFAULT_MLO_PATH, DEFAULT_UBOOT_PATH} |->
                         IF p = DEFAULT_MLO_PATH THEN mlo ELSE uboot]
    /\ devs = [p \in {DEFAULT_DEVICES[1], DEFAULT_DEVICES[2]} |-> OtherDevice]
    /\ devices = DEFAULT_DEVICES
    /\ action \in Actions
    /\ InitRun

Init == InitValid \/ InitInvalid

Spec == Init /\ [][Next]_vars

(***************************************************************************)
(* find_mbr_first_partition on its own: every first sector built from the  *)
(* sample signatures and entries, under both sector sizes                  *)
(***************************************************************************)
EntrySamples ==
    {ZeroEntry, TypeOnlyEntry, PartEntry(0, 0, 0, 0), PartEntry(63, 0, 0, 0),
     PartEntry(0, 8, 0, 0), PartEntry(255, 255, 255, 255)}

SigSamples == {GoodSig, <<\H55, 0>>, <<0, \Haa>>, <<\Haa, \H55>>}

InitMbr ==
    /\ pc = "find_mbr"
    /\ \E sig \in SigSamples, entries \in [1..4 -> EntrySamples],
          sector_size \in {DEFAULT_SECTOR_SIZE, 4096} :
          arg = [stream |-> [boot_sig |-> sig, entries |-> entries],
                 sector_size |-> sector_size]
    /\ ret = <<>>
    /\ files = <<>> /\ devs = <<>> /\ devices = <<>> /\ action = ""
    /\ new_images = NoImages /\ outdated_images = <<>> /\ idx = 1
    /\ events = <<>> /\ raised = "none" /\ result = "none"
    /\ response = Unprompted

CallFindMbr ==
    /\ pc = "find_mbr"
    /\ ret' = find_mbr_first_partition(arg.stream, arg.sector_size)
    /\ pc' = "find_mbr_done"
    /\ UNCHANGED <<files, devs, devices, action, new_images, outdated_images,
                   idx, events, raised, result, arg, response>>

NextMbr == CallFindMbr

SpecMbr == InitMbr /\ [][NextMbr]_vars

(***************************************************************************)
(* The properties                                                          *)
(***************************************************************************)
Range(seq) == {seq[i] : i \in 1..Len(seq)}

\* The state compare_images saw and produced: no entry is applied yet
Planned == pc = "apply" /\ idx = 1

Boundary(d) == find_mbr_first_partition(devs[d].mbr, get_block_size(devs[d]))

Found(d) == find_images(FS, d)

\* The bytes of a discovered image differ from its replacement file
Differs(im) ==
    ReadBytes(devs[im.device].data, im.offset, im.size)
        # files[new_images[im.kind].device].data

\* The end of the replacement written at the offset of im
NewEnd(im) == W(im.offset + new_images[im.kind].size)

EntriesOn(d) == SelectSeq(outdated_images, LAMBDA im : im.device = d)

IsWrite(e) == e.op \in {"os.sendfile", "written"}

\* C1: an image whose replacement, moved to its offset, ends at or past the
\* partition boundary of its device is never in the update list; ending
\* exactly on the boundary is rejected too.
C1_BoundaryRejects ==
    Planned =>
        \A d \in Range(devices) : \A im \in Range(Found(d)) :
            (Boundary(d) # None /\ WGe(NewEnd(im), Boundary(d)))
                => im \notin Range(outdated_images)

\* An outdated image away from offset 0 whose replacement would end exactly
\* on the boundary
C1_Witness ==
    /\ Planned
    /\ \E d \in Range(devices) : \E im \in Range(Found(d)) :
          /\ Boundary(d) # None /\ NewEnd(im) = Boundary(d)
          /\ im.offset # 0 /\ Differs(im)
          /\ im \notin Range(outdated_images)

\* C2: every sendfile of a run asks for, and writes, a range that starts at
\* the offset o of an image and ends, o + (size of the replacement file),
\* strictly below the partition boundary of the device.
C2_WritesBelowBoundary ==
    \A i \in 1..Len(events) :
        IsWrite(events[i]) =>
            /\ Boundary(events[i].path) # None
            /\ WLt(W(events[i].off + events[i].n), Boundary(events[i].path))

\* A complete write that ends one chunk below the boundary, over an image
\* whose own size reaches the boundary
C2_Witness ==
    \E i \in 1..Len(events) : \E im \in Range(outdated_images) :
        /\ events[i].op = "written" /\ events[i].n > 0
        /\ events[i].n = events[i - 1].n
        /\ W(events[i].off + events[i].n + ChunkSize) = Boundary(events[i].path)
        /\ im.device = events[i].path /\ im.offset = events[i].off
        /\ W(im.offset + im.size) = Boundary(im.device)

\* C3: no image at offset 0 is in the update list, and no write starts at
\* offset 0.
C3_OffsetZeroSkipped ==
    /\ \A i \in 1..Len(outdated_images) : outdated_images[i].offset # 0
    /\ \A i \in 1..Len(events) : IsWrite(events[i]) => events[i].off # 0

\* A plan was made for a device with an outdated image at offset 0 that the
\* boundary would allow
C3_Witness ==
    /\ Planned
    /\ \E d \in Range(devices) : \E im \in Range(Found(d)) :
          /\ Boundary(d) # None /\ im.offset = 0 /\ Differs(im)
          /\ WLt(NewEnd(im), Boundary(d))

\* The device of C4: a boundary, an outdated first-stage image at offset 0,
\* a second-stage image at 0x60000 identical to its replacement, no other
C4_Device(d) ==
    /\ Boundary(d) # None
    /\ Len(Found(d)) = 2
    /\ Found(d)[1].offset = 0 /\ Found(d)[1].kind = MLO /\ Differs(Found(d)[1])
    /\ Found(d)[2].offset = PROBE_OFFSETS[4] /\ Found(d)[2].kind = UBOOT
    /\ ~Differs(Found(d)[2])

\* C4 as stated: for such a device the update list holds exactly the entry
\* at offset 0.
C4_Original ==
    Planned =>
        \A d \in Range(devices) : C4_Device(d) => EntriesOn(d) = <<Found(d)[1]>>

\* C4 as amended: for such a device the update list holds no entry, the
\* image at offset 0 being rejected and the second-stage image current.
C4_NoEntry ==
    Planned =>
        \A d \in Range(devices) : C4_Device(d) => EntriesOn(d) = <<>>

\* Such a device was planned, its second-stage replacement below the boundary
C4_Witness ==
    /\ Planned
    /\ \E d \in Range(devices) :
          C4_Device(d) /\ WLt(NewEnd(Found(d)[2]), Boundary(d))

\* C5: a first sector with the boot signature and four empty partition
\* entries gives None.
C5_AllEmptyGivesNone ==
    (/\ pc = "find_mbr_done"
     /\ arg.stream.boot_sig = GoodSig
     /\ \A i \in 1..4 : arg.stream.entries[i] = ZeroEntry)
        => ret = None

BadSig(d) == devs[d].mbr.boot_sig # <<\H55, \Haa>>

EventsOf(d, ops) == {i \in 1..Len(events) : events[i].path = d /\ events[i].op \in ops}

\* C6: a device without the boot signature has no boundary whatever its
\* partition entries hold; the planner does not look for images on it and
\* lists none of its images, and it scans every device of its input, looking
\* for images on those that have the signature.
C6_NoSignatureSkipsDevice ==
    Planned =>
        \A d \in Range(devices) :
            BadSig(d) =>
                /\ Boundary(d) = None
                /\ EventsOf(d, {"find_images", "hexdigest"}) = {}
                /\ EntriesOn(d) = <<>>
                /\ \A d2 \in Range(devices) :
                      /\ EventsOf(d2, {"find_mbr_first_partition"}) # {}
                      /\ ~BadSig(d2) => EventsOf(d2, {"find_images"}) # {}

\* The first device of the input has partition entries and an old image but
\* no signature, and an image of the next device is listed
C6_Witness ==
    /\ Planned
    /\ Len(devices) = 2
    /\ BadSig(devices[1])
    /\ \E i \in 1..4 : devs[devices[1]].mbr.entries[i] # ZeroEntry
    /\ \E im \in Range(Found(devices[1])) : im.offset # 0 /\ Differs(im)
    /\ EntriesOn(devices[2]) # <<>>

Rejected(d, im) == im.offset = 0 \/ WGe(NewEnd(im), Boundary(d))

\* C7: an image away from offset 0 whose replacement ends strictly below
\* the boundary is in the update list exactly when its bytes differ from the
\* replacement's, whatever was decided for the other images of its device.
C7_ListedIffDiffers ==
    Planned =>
        \A d \in Range(devices) : \A im \in Range(Found(d)) :
            (Boundary(d) # None /\ ~Rejected(d, im))
                => (im \in Range(outdated_images) <=> Differs(im))

\* On one device a rejected image is found before an outdated one that is
\* listed
C7_Witness ==
    /\ Planned
    /\ \E d \in Range(devices) : \E i, j \in 1..Len(Found(d)) :
          /\ Boundary(d) # None /\ i < j
          /\ Rejected(d, Found(d)[i])
          /\ ~Rejected(d, Found(d)[j]) /\ Found(d)[j] \in Range(outdated_images)

\* The entry of the update list a copy event belongs to
EntryOf(e) == CHOOSE im \in Range(outdated_images) : im.device = e.path /\ im.offset = e.off

\* C8: copy_raw returns only after sendfile reported the whole count asked
\* for, then os.fsync was called, then os.close; and on return the target
\* holds the bytes of the source at the target offset.
C8_ReturnAfterFullCopyAndFsync ==
    /\ \A i \in 1..Len(events) :
          events[i].op = "return" =>
              /\ i > 4
              /\ events[i - 4].op = "os.sendfile"
              /\ events[i - 3].op = "written" /\ events[i - 3].n = events[i - 4].n
              /\ events[i - 3].n = events[i].n
              /\ events[i - 2].op = "os.fsync" /\ events[i - 2].path = events[i].path
              /\ events[i - 1].op = "os.close"
    /\ (events # <<>> /\ events[Len(events)].op = "return") =>
          LET e == events[Len(events)]
              src == new_images[EntryOf(e).kind]
          IN /\ e.n = src.size
             /\ ReadBytes(devs[e.path].data, e.off, e.n)
                    = ReadBytes(files[src.device].data, src.offset, src.size)

\* A copy of more than one chunk returned
C8_Witness ==
    /\ events # <<>>
    /\ events[Len(events)].op = "return"
    /\ events[Len(events)].n > ChunkSize

\* sendfile raised, or returned another count than it was asked for
TransferFailed(i) ==
    \/ events[i].op = "OSError"
    \/ events[i].op = "written" /\ events[i].n # events[i - 1].n

\* C9: after a failed transfer the only further call is the os.close of the
\* target: no os.fsync, no return of copy_raw, no other copy; the run has
\* ended with the exception and without a result.
C9_TransferFailureIsFatal ==
    \A i \in 1..Len(events) :
        TransferFailed(i) =>
            /\ Len(events) = i + 1
            /\ events[i + 1].op = "os.close" /\ events[i + 1].path = events[i].path
            /\ pc = "raised" /\ raised \in {"OSError", "AssertionError"}
            /\ result = "none"

\* A short transfer that wrote something, entries being left in the list
C9_Witness ==
    /\ idx < Len(outdated_images)
    /\ \E i \in 1..Len(events) :
          TransferFailed(i) /\ events[i].op = "written" /\ events[i].n > 0

\* A replacement file is missing, or no detector of its kind accepts it
BadReplacement ==
    \/ ~files[DEFAULT_MLO_PATH].exists
    \/ ~files[DEFAULT_UBOOT_PATH].exists
    \/ get_mlo_toc_size(files[DEFAULT_MLO_PATH].data[1].hdr).exc # "none"
    \/ /\ get_u_boot_fit_size(files[DEFAULT_UBOOT_PATH].data[1].hdr).exc # "none"
       /\ get_u_boot_legacy_size(files[DEFAULT_UBOOT_PATH].data[1].hdr).exc # "none"

\* C10: with a replacement file missing or not accepted, the run ends with
\* FileNotFoundError or ValueError and no device is ever read or written.
C10_BadReplacementAbortsFirst ==
    BadReplacement =>
        /\ events = <<>>
        /\ pc \in {"validate", "raised"}
        /\ pc = "raised" => raised \in {"FileNotFoundError", "ValueError"}
        /\ outdated_images = <<>> /\ result = "none"

\* The run ended on a second-stage file of the right family and the wrong role
C10_Witness ==
    /\ pc = "raised" /\ raised = "ValueError"
    /\ files[DEFAULT_MLO_PATH].exists /\ files[DEFAULT_UBOOT_PATH].exists
    /\ get_mlo_toc_size(files[DEFAULT_MLO_PATH].data[1].hdr).exc = "none"
    /\ get_u_boot_legacy_size(files[DEFAULT_UBOOT_PATH].data[1].hdr).exc
           = "InvalidUBootImage"

\* The responses of the model that are "y" or "yes" once lowercased and stripped
YesResponses == {"y", " Yes"}

\* The step leaves every device as it was and goes on to the next entry
NoCopy ==
    /\ devs' = devs /\ events' = events
    /\ pc' = "apply" /\ idx' = idx + 1

\* The step calls copy_raw on the entry e: either the open fails and the run
\* ends, or the device is opened and positioned at the entry's offset and
\* the replacement's size is requested of sendfile
CopyCalled(e) ==
    /\ SubSeq(events', 1, Len(events)) = events
    /\ \/ events' = events /\ devs' = devs /\ pc' = "raised" /\ raised' = "OSError"
       \/ /\ Len(events') >= Len(events) + 3
          /\ events'[Len(events) + 1] = Event("os.open", e.device, 0, 0)
          /\ events'[Len(events) + 2] = Event("os.lseek", e.device, e.offset, 0)
          /\ events'[Len(events) + 3]
                = Event("os.sendfile", e.device, e.offset, new_images[e.kind].size)
    /\ \/ pc' = "raised" /\ idx' = idx
       \/ pc' = "apply" /\ idx' = idx + 1
             /\ events'[Len(events')].op = "return"

\* C11: the writes are gated by the action mode.  DRY_RUN leaves every
\* device unchanged and makes no call that opens or writes a device;
\* INTERACTIVE calls copy_raw on the entry in turn exactly when the response,
\* lowercased and stripped, is "y" or "yes", and a declined entry leaves the
\* run at the next entry; FORCE calls copy_raw on every entry in turn, in
\* the order of the update list.
C11_WritesGatedByMode ==
    [][/\ action = DRY_RUN =>
            /\ devs' = devs
            /\ \A i \in 1..Len(events') :
                  events'[i].op \in {"find_mbr_first_partition", "find_images", "hexdigest"}
       /\ (pc = "apply" /\ idx <= Len(outdated_images)) =>
            /\ outdated_images' = outdated_images
            /\ action = DRY_RUN => NoCopy
            /\ action = FORCE => CopyCalled(outdated_images[idx])
            /\ action = INTERACTIVE =>
                  IF response' \in YesResponses
                  THEN CopyCalled(outdated_images[idx])
                  ELSE NoCopy]_vars

\* An interactive run that declined an entry and then copied a later one
C11_Witness ==
    /\ action = INTERACTIVE /\ pc = "apply" /\ idx >= 3
    /\ response \in YesResponses
    /\ events[Len(events)]
          = Event("return", outdated_images[idx - 1].device,
                  outdated_images[idx - 1].offset,
                  new_images[outdated_images[idx - 1].kind].size)
    /\ Cardinality({i \in 1..Len(events) : events[i].op = "return"}) = 1

\* C12: the update list is sorted by kind, then device, then offset: every
\* MLO entry comes before every U-Boot entry, and entries of one kind are
\* ordered by device path and, on one device, by ascending offset.
C12_ListSorted ==
    \A i, j \in 1..Len(outdated_images) :
        i < j =>
            LET a == outdated_images[i]
                b == outdated_images[j]
            IN /\ ~(a.kind = UBOOT /\ b.kind = MLO)
               /\ a.kind = b.kind =>
                     ~(a.device = "/dev/mmcblk1" /\ b.device = "/dev/mmcblk0")
               /\ (a.kind = b.kind /\ a.device = b.device) => a.offset < b.offset

\* The devices were given as mmcblk0, mmcblk1 and an MLO entry of mmcblk1 is
\* listed before a U-Boot entry of mmcblk0: the sort moved it
C12_Witness ==
    /\ Planned /\ devices = DEFAULT_DEVICES
    /\ \E i, j \in 1..Len(outdated_images) :
          /\ i < j
          /\ outdated_images[i].device = "/dev/mmcblk1"
          /\ outdated_images[i].kind = MLO
          /\ outdated_images[j].device = "/dev/mmcblk0"
          /\ outdated_images[j].kind = UBOOT

\* The entries of the first sector given to find_mbr_first_partition that
\* have a non-zero byte
NonEmptyEntries == {i \in 1..4 : arg.stream.entries[i] # ZeroEntry}

\* The starting sector of entry i: bytes 8..11, little-endian
LbaStart(i) ==
    LET e == arg.stream.entries[i]
    IN <<e[12] * 256 + e[11], e[10] * 256 + e[9]>>

\* C13: given the boot signature 55 aa and at least one entry with a
\* non-zero byte, find_mbr_first_partition returns the sector size times the
\* lowest starting sector of the non-empty entries; empty entries do not
\* count, a non-empty entry starting at sector 0 gives 0, and a lowest start
\* of 2048 with 512-byte sectors gives 1048576.
C13_LowestStartTimesSectorSize ==
    (pc = "find_mbr_done" /\ arg.stream.boot_sig = <<\H55, \Haa>>
        /\ NonEmptyEntries # {}) =>
        /\ \E i \in NonEmptyEntries :
              /\ \A j \in NonEmptyEntries : ~WLt(LbaStart(j), LbaStart(i))
              /\ ret = WMul(arg.sector_size, LbaStart(i))
              /\ LbaStart(i) = <<0, 0>> => ret = <<0, 0>>
              /\ (LbaStart(i) = <<0, 2048>> /\ arg.sector_size = 512)
                    => ret = <<16, 0>>

\* Empty entries beside a partition at sector 2048 and one at 0xffffffff,
\* 512-byte sectors: 1048576 is returned
C13_Witness ==
    /\ pc = "find_mbr_done"
    /\ arg.stream = Mbr(GoodSig, ZeroEntry, PartEntry(255, 255, 255, 255),
                         PartEntry(0, 8, 0, 0), ZeroEntry)
    /\ arg.sector_size = 512
    /\ ret = <<16, 0>>

(***************************************************************************)
(* get_u_boot_fit_size on its own: arg is the header of the stream, ret    *)
(* what the call gives                                                     *)
(***************************************************************************)
\* The most entries of an "images" node
MaxFitEntries == 3

FitEntrySamples ==
    {FitEntry(0, 1000, "firmware", "u-boot"),
     FitEntry(0, 1001, "flat_dt", NoneStr),
     FitEntry(1000, 1002, "firmware", "u-boot"),
     FitEntry(1000, 6, "flat_dt", NoneStr),
     FitEntry(2002, 5, "flat_dt", NoneStr),
     FitEntry(3000, Absent, "firmware", "u-boot")}

FitTreeSamples ==
    {[has_images |-> TRUE, images |-> im] :
        im \in UNION {[1..n -> FitEntrySamples] : n \in 1..MaxFitEntries}}
    \cup {NoTree}

InitFit ==
    /\ pc = "fit_size"
    /\ \E tree \in FitTreeSamples, fdt_len \in {4093, 4096},
          magic \in {FDT_MAGIC, UBOOT_LEGACY_MAGIC} :
          arg = [FitHdr(1, tree) EXCEPT !.fdt_len = fdt_len, !.magic = magic]
    /\ ret = <<>>
    /\ files = <<>> /\ devs = <<>> /\ devices = <<>> /\ action = ""
    /\ new_images = NoImages /\ outdated_images = <<>> /\ idx = 1
    /\ events = <<>> /\ raised = "none" /\ result = "none"
    /\ response = Unprompted

CallFitSize ==
    /\ pc = "fit_size"
    /\ ret' = get_u_boot_fit_size(arg)
    /\ pc' = "fit_size_done"
    /\ UNCHANGED <<files, devs, devices, action, new_images, outdated_images,
                   idx, events, raised, result, arg, response>>

NextFit == CallFitSize

SpecFit == InitFit /\ [][NextFit]_vars

\* n rounded up to the next multiple of 4
RoundUp4(n) == IF n % 4 = 0 THEN n ELSE (n - (n % 4)) + 4

FitEntries == arg.tree.images

\* The tree of the call has an "images" node whose entries all carry
\* data-offset and data-size, one of them a u-boot firmware
WellFormedFit ==
    /\ arg.magic = <<\Hd00d, \Hfeed>>
    /\ arg.tree.has_images
    /\ \A i \in 1..Len(FitEntries) :
          FitEntries[i].data_offset # Absent /\ FitEntries[i].data_size # Absent
    /\ \E i \in 1..Len(FitEntries) :
          FitEntries[i].type = "firmware" /\ FitEntries[i].os = "u-boot"

\* C14: for a well-formed tree get_u_boot_fit_size returns the blob length
\* rounded up to 4 plus D + S rounded up to 4, D being the largest
\* data-offset of the entries and S the data-size of an entry at that
\* offset, whatever the entries are.
C14_FitSizeIsBlobPlusLastImage ==
    (pc = "fit_size_done" /\ WellFormedFit) =>
        \E i \in 1..Len(FitEntries) :
            /\ \A j \in 1..Len(FitEntries) :
                  FitEntries[j].data_offset <= FitEntries[i].data_offset
            /\ ret = [exc |-> "none",
                      size |-> RoundUp4(arg.fdt_len)
                               + RoundUp4(FitEntries[i].data_offset
                                          + FitEntries[i].data_size)]

(***************************************************************************)
(* get_u_boot_legacy_size on its own: arg is the 64-byte header, ret what  *)
(* the call gives                                                          *)
(***************************************************************************)
InitLegacy ==
    /\ pc = "legacy_size"
    /\ \E magic \in {UBOOT_LEGACY_MAGIC, FDT_MAGIC, <<\H2705, \H1957>>, <<0, 0>>},
          size \in {0, 1, 65472, 204800},
          os \in {UBOOT_OS, 0, FIRMWARE_TYPE, 255},
          type \in {FIRMWARE_TYPE, 0, 2, UBOOT_OS} :
          arg = [NoHdr EXCEPT !.magic = magic, !.size = size, !.os = os, !.type = type]
    /\ ret = <<>>
    /\ files = <<>> /\ devs = <<>> /\ devices = <<>> /\ action = ""
    /\ new_images = NoImages /\ outdated_images = <<>> /\ idx = 1
    /\ events = <<>> /\ raised = "none" /\ result = "none"
    /\ response = Unprompted

CallLegacySize ==
    /\ pc = "legacy_size"
    /\ ret' = get_u_boot_legacy_size(arg)
    /\ pc' = "legacy_size_done"
    /\ UNCHANGED <<files, devs, devices, action, new_images, outdated_images,
                   idx, events, raised, result, arg, response>>

NextLegacy == CallLegacySize

SpecLegacy == InitLegacy /\ [][NextLegacy]_vars

\* C15: get_u_boot_legacy_size raises InvalidFirmwareImage when the magic
\* number is not 0x27051956, whatever the OS and type fields are; with that
\* magic number it raises InvalidUBootImage when the OS is not 17 or the
\* type is not 5; otherwise it returns the data size plus 64 (204800 gives
\* 204864).
C15_LegacyClassification ==
    pc = "legacy_size_done" =>
        /\ arg.magic # <<\H2705, \H1956>> => ret.exc = "InvalidFirmwareImage"
        /\ (arg.magic = <<\H2705, \H1956>> /\ (arg.os # 17 \/ arg.type # 5))
              => ret.exc = "InvalidUBootImage"
        /\ (arg.magic = <<\H2705, \H1956>> /\ arg.os = 17 /\ arg.type = 5)
              => ret = [exc |-> "none", size |-> arg.size + 64]
        /\ (arg.magic = <<\H2705, \H1956>> /\ arg.os = 17 /\ arg.type = 5
              /\ arg.size = 204800) => ret.size = 204864

\* The header of the example: data size 204800 gives 204864
C15_Witness ==
    /\ pc = "legacy_size_done"
    /\ arg.magic = <<\H2705, \H1956>> /\ arg.os = 17 /\ arg.type = 5
    /\ arg.size = 204800
    /\ ret = [exc |-> "none", size |-> 204864]

(***************************************************************************)
(* FirmwareImage.__matmul__ on its own: arg.image @ arg.new_offset, the    *)
(* right operand an int (arg.by = "int") or a FirmwareImage; ret is        *)
(* [exc, image]                                                            *)
(***************************************************************************)
\* A device with the same old image at two probe offsets
TwinDevice ==
    Device([logical_block_size |-> NoSysfs,
            mbr |-> Mbr(GoodSig, PartEntry(0, 8, 0, 0), ZeroEntry, ZeroEntry, ZeroEntry)],
           LayOut(BlankData, <<<<>>, OldMlo, OldMlo, <<>>>>, 1))

\* The images of the files and of the first device
RebaseImages ==
    {FirmwareImageOfFile(FS, DEFAULT_MLO_PATH, MLO),
     FirmwareImageOfFile(FS, DEFAULT_UBOOT_PATH, UBOOT)}
    \cup Range(find_images(FS, DEFAULT_DEVICES[1]))

InitRebase ==
    /\ pc = "matmul"
    /\ \E mlo \in ValidMloFiles, uboot \in ValidUBootFiles :
          files = [p \in {DEFAULT_MLO_PATH, DEFAULT_UBOOT_PATH} |->
                      IF p = DEFAULT_MLO_PATH THEN mlo ELSE uboot]
    /\ devs = [p \in {DEFAULT_DEVICES[1], DEFAULT_DEVICES[2]} |->
                  IF p = DEFAULT_DEVICES[1] THEN TwinDevice ELSE OtherDevice]
    /\ \E image \in RebaseImages :
          \/ \E n \in {-1, 0, ChunkSize, PROBE_OFFSETS[2], PROBE_OFFSETS[3]} :
                arg = [by |-> "int", image |-> image, new_offset |-> n]
          \/ \E onto \in RebaseImages :
                arg = [by |-> "FirmwareImage", image |-> image, new_offset |-> onto]
    /\ ret = <<>>
    /\ devices = <<>> /\ action = ""
    /\ new_images = NoImages /\ outdated_images = <<>> /\ idx = 1
    /\ events = <<>> /\ raised = "none" /\ result = "none"
    /\ response = Unprompted

CallMatmulInt ==
    /\ pc = "matmul" /\ arg.by = "int"
    /\ ret' = FirmwareImage_matmul_int(arg.image, arg.new_offset)
    /\ pc' = "matmul_done"
    /\ UNCHANGED <<files, devs, devices, action, new_images, outdated_images,
                   idx, events, raised, result, arg, response>>

CallMatmulImage ==
    /\ pc = "matmul" /\ arg.by = "FirmwareImage"
    /\ ret' = [exc |-> "none",
               image |-> FirmwareImage_matmul(arg.image, arg.new_offset)]
    /\ pc' = "matmul_done"
    /\ UNCHANGED <<files, devs, devices, action, new_images, outdated_images,
                   idx, events, raised, result, arg, response>>

NextRebase == CallMatmulInt \/ CallMatmulImage

SpecRebase == InitRebase /\ [][NextRebase]_vars

\* The offset the rebase of the call moves to
TargetOffset == IF arg.by = "int" THEN arg.new_offset ELSE arg.new_offset.offset

\* A rebase to a non-negative offset has returned
Rebased == pc = "matmul_done" /\ TargetOffset >= 0

\* C16 as stated: the new instance has the target offset and the kind and
\* size of the operand, and compares equal to the operand.
C16_RebasedEqualsOriginal ==
    Rebased =>
        /\ ret.exc = "none"
        /\ ret.image.offset = TargetOffset
        /\ ret.image.kind = arg.image.kind /\ ret.image.size = arg.image.size
        /\ hexdigest(FS, ret.image) = hexdigest(FS, arg.image)

\* C16, amended: the rebase leaves its operand as it was and returns a new
\* instance with the target offset and the device, kind and size of the
\* operand.  The new instance addresses the bytes of that device at the
\* target offset: it compares equal to the operand when the target offset is
\* the operand's own, and a whole file rebased to an offset above 0 never
\* compares equal to the file.
C16_RebaseKeepsDeviceKindSize ==
    [][pc = "matmul" =>
        /\ arg' = arg /\ files' = files /\ devs' = devs
        /\ TargetOffset >= 0 =>
              /\ ret'.exc = "none"
              /\ ret'.image.offset = TargetOffset
              /\ ret'.image.device = arg.image.device
              /\ ret'.image.kind = arg.image.kind
              /\ ret'.image.size = arg.image.size
              /\ TargetOffset = arg.image.offset
                    => hexdigest(FS, ret'.image) = hexdigest(FS, arg.image)
              /\ (arg.image.device \in DOMAIN files /\ TargetOffset > 0)
                    => hexdigest(FS, ret'.image) # hexdigest(FS, arg.image)]_vars

\* A replacement file rebased to the offset of an image of the device: the
\* new instance does not compare equal to the file
C16_Witness ==
    /\ Rebased /\ arg.by = "FirmwareImage"
    /\ arg.image.device = DEFAULT_UBOOT_PATH
    /\ arg.new_offset.device = DEFAULT_DEVICES[1]
    /\ ret.image = [arg.image EXCEPT !.offset = PROBE_OFFSETS[3]]
    /\ hexdigest(FS, ret.image) # hexdigest(FS, arg.image)

\* C17: the replacements of two entries of the update list on one device do
\* not overlap: for entries at offsets a < b the replacement written at a
\* ends at or before b.
C17_PlannedWritesDisjoint ==
    Planned =>
        \A i, j \in 1..Len(outdated_images) :
            LET a == outdated_images[i]
                b == outdated_images[j]
            IN (a.device = b.device /\ a.offset < b.offset)
                  => a.offset + new_images[a.kind].size <= b.offset

\* A FORCE run has returned: every entry of the update list was copied
ForceRunDone == pc = "returned" /\ action = FORCE

\* The update list the planner gives on the devices and files as they are now
Replanned ==
    compare_images(FS, new_images[MLO], new_images[UBOOT], devices).images_to_update

\* The replacement files are as long as their detectors report
FileLengthsMatch ==
    /\ get_mlo_toc_size(HeaderAt(files[DEFAULT_MLO_PATH].data, 0)).size
          = new_images[MLO].size
    /\ \/ get_u_boot_fit_size(HeaderAt(files[DEFAULT_UBOOT_PATH].data, 0))
            = [exc |-> "none", size |-> new_images[UBOOT].size]
       \/ get_u_boot_legacy_size(HeaderAt(files[DEFAULT_UBOOT_PATH].data, 0))
            = [exc |-> "none", size |-> new_images[UBOOT].size]

\* C18: after a FORCE run whose copies all succeeded, with replacement files
\* as long as their detectors report, the planner run again on the same
\* devices and files gives an empty update list, and every image that was
\* overwritten is found at its offset and compares equal to its replacement.
C18_ForceRunConverges ==
    (ForceRunDone /\ FileLengthsMatch) =>
        /\ Replanned = <<>>
        /\ \A i \in 1..Len(outdated_images) :
              LET e == outdated_images[i]
              IN \E im \in Range(find_images(FS, e.device)) :
                    /\ im.offset = e.offset /\ im.kind = e.kind
                    /\ FirmwareImage_eq(FS, new_images[e.kind], im)

====
